---- MODULE Spec2Model ----
(***************************************************************************)
(* Advanced Word Count (Obsidian plugin): the text pre-processing and      *)
(* metric pipeline of WordCountPlugin, and the handlers that run it.       *)
(*                                                                         *)
(* A text is a sequence of one-character strings.  Every regular           *)
(* expression of the source is an operator giving, for a start index, the  *)
(* index of the last character of the match that starts there (0: no       *)
(* match), as the ECMAScript matcher finds it; String.prototype.replace    *)
(* with the g flag is ReplaceAll, String.prototype.match is CountMatches.  *)
(***************************************************************************)
EXTENDS Integers, Sequences, FiniteSets, TLC

VARIABLES
  presets,          \* settings.presets
  activePresetId,   \* settings.activePresetId
  view,             \* the active MarkdownView's data, or NoView
  statusText,       \* what statusBarItem.setText last received
  metrics,          \* the Metrics record the last updateCount built
  registeredCommandIds,  \* the plugin's set of the command ids it added
  commands,         \* app.commands.commands: the name of every command
  pending           \* the handlers suspended at their await of saveSettings()

vars ==
  <<presets, activePresetId, view, statusText, metrics, registeredCommandIds,
    commands, pending>>

\* ── Characters ──────────────────────────────────────────────────────────────

NL == "\n"
TAB == "\t"
BT == "BACKTICK"    \* U+0060, which a TLA+ string cannot hold
X01 == "\\x01"
X02 == "\\x02"
X03 == "\\x03"

\* \s of the regular expressions, and the characters String.trim removes
IsSpace(c) == c \in {" ", NL, TAB, "\r"}

\* "." of the regular expressions (no s flag): anything but a line terminator
IsDot(c) == c \notin {NL, "\r"}

AnyChar(c) == TRUE

\* \d
IsDigit(c) == c \in {"0", "1", "2", "3", "4", "5", "6", "7", "8", "9"}

Min(S) == CHOOSE m \in S : \A k \in S : m <= k

Max(S) == CHOOSE m \in S : \A k \in S : m >= k

\* s[i], or the empty string outside the text
At(s, i) == IF i >= 1 /\ i <= Len(s) THEN s[i] ELSE ""

\* the literal lit occurs in s at index i
StartsAt(s, i, lit) ==
  /\ i >= 1
  /\ i + Len(lit) - 1 <= Len(s)
  /\ \A k \in 1..Len(lit) : s[i + k - 1] = lit[k]

\* A lazy or negated-class run followed by a literal: the first index j >= from
\* at which lit occurs, provided every character of from..j-1 is in the class
\* Ok; 0 when there is none.
\* (Min0 is 0 for the empty set; a value that is used twice is a parameter of
\* a local operator, so that no definition is expanded more than once.)
Min0(S) == IF S = {} THEN 0 ELSE Min(S)

\* const v = x; F(v): x is computed first, and once, and F is applied to its
\* value (which keeps the evaluation of a long chain of statements shallow)
Bind(x, F(_)) == CHOOSE r \in {F(v) : v \in {x}} : TRUE

FindLit(Ok(_), s, from, lit) ==
  LET AllOk(j) == IF j # 0 /\ \A k \in from..(j - 1) : Ok(s[k]) THEN j ELSE 0 IN
  IF from < 1 THEN 0
  ELSE AllOk(Min0({j \in from..Len(s) : StartsAt(s, j, lit)}))

\* String.prototype.trim
trim(s) ==
  LET Between(c) == IF c = {} THEN <<>> ELSE SubSeq(s, Min(c), Max(c)) IN
  IF s = <<>> THEN s ELSE Between({i \in 1..Len(s) : ~IsSpace(s[i])})

\* String.prototype.replace(re, r) with a g flag: M(s, i) is the last index of
\* the match of re starting at i (0: none), R(s, i, e) the replacement of the
\* match s[i..e].  Matches are taken leftmost, without overlap.
RECURSIVE ReplaceFrom(_, _, _, _)
ReplaceFrom(M(_, _), R(_, _, _), s, from) ==
  LET Step(i, e) ==
        SubSeq(s, from, i - 1) \o R(s, i, e) \o ReplaceFrom(M, R, s, e + 1)
      First(i) == IF i = 0 THEN SubSeq(s, from, Len(s)) ELSE Step(i, M(s, i))
  IN First(Min0({i \in from..Len(s) : M(s, i) # 0}))

ReplaceAll(M(_, _), R(_, _, _), s) ==
  IF s = <<>> THEN s ELSE ReplaceFrom(M, R, s, 1)

\* (s.match(re) ?? []), re with a g flag: the matches, as <<first, last>> pairs
RECURSIVE MatchesFrom(_, _, _)
MatchesFrom(M(_, _), s, from) ==
  LET Step(i, e) == <<(<<i, e>>)>> \o MatchesFrom(M, s, e + 1)
      First(i) == IF i = 0 THEN <<>> ELSE Step(i, M(s, i))
  IN First(Min0({i \in from..Len(s) : M(s, i) # 0}))

Matches(M(_, _), s) == IF s = <<>> THEN s ELSE MatchesFrom(M, s, 1)

Empty(s, i, e) == <<>>

\* ── The regular expressions of preprocessBase ───────────────────────────────

\* /^---[\s\S]*?---\n?/ (no g, no m: only a match at index 1)
FrontmatterEnd(s) ==
  LET Close(j) == IF j = 0 THEN 0
                  ELSE IF At(s, j + 3) = NL THEN j + 3 ELSE j + 2
  IN IF ~StartsAt(s, 1, <<"-", "-", "-">>) THEN 0
     ELSE Close(FindLit(AnyChar, s, 4, <<"-", "-", "-">>))

StripFrontmatter(s) == SubSeq(s, FrontmatterEnd(s) + 1, Len(s))

\* an opening literal, a lazy run of the class Ok, a closing literal
Delimited(Ok(_), s, i, open, close) ==
  LET Last(j) == IF j = 0 THEN 0 ELSE j + Len(close) - 1 IN
  IF ~StartsAt(s, i, open) THEN 0
  ELSE Last(FindLit(Ok, s, i + Len(open), close))

\* /%%[\s\S]*?%%/g
PercentComment(s, i) == Delimited(AnyChar, s, i, <<"%", "%">>, <<"%", "%">>)

\* /<!--[\s\S]*?-->/g
HtmlComment(s, i) ==
  Delimited(AnyChar, s, i, <<"<", "!", "-", "-">>, <<"-", "-", ">">>)

\* /BT BT BT[\s\S]*?BT BT BT/g
CodeFence(s, i) ==
  Delimited(AnyChar, s, i, <<BT, BT, BT>>, <<BT, BT, BT>>)

\* /BT[^BT]*BT/g
InlineCode(s, i) == Delimited(AnyChar, s, i, <<BT>>, <<BT>>)

\* /!\[.*?\]\(.*?\)/g
Image(s, i) ==
  LET Target(j) == IF j = 0 THEN 0 ELSE FindLit(IsDot, s, j + 2, <<")">>) IN
  IF ~StartsAt(s, i, <<"!", "[">>) THEN 0
  ELSE Target(FindLit(IsDot, s, i + 2, <<"]", "(">>))

\* /\[([^\]]*)\]\(([^)]*)\)/g: the index of the "]" that closes the label
MdLinkMid(s, i) ==
  LET Then(j) == IF j = 0 \/ At(s, j + 1) # "(" THEN 0 ELSE j IN
  IF At(s, i) # "[" THEN 0 ELSE Then(FindLit(AnyChar, s, i + 1, <<"]">>))

MdLink(s, i) ==
  LET Target(j) == IF j = 0 THEN 0 ELSE FindLit(AnyChar, s, j + 2, <<")">>) IN
  Target(MdLinkMid(s, i))

MdLinkLabel(s, i, e) == SubSeq(s, i + 1, MdLinkMid(s, i) - 1)

MdLinkUrl(s, i, e) == SubSeq(s, MdLinkMid(s, i) + 2, e - 1)

\* /\(([^)]*)\)\[([^\]]*)\]/g: the index of the ")" that closes the target
RevLinkMid(s, i) ==
  LET Then(j) == IF j = 0 \/ At(s, j + 1) # "[" THEN 0 ELSE j IN
  IF At(s, i) # "(" THEN 0 ELSE Then(FindLit(AnyChar, s, i + 1, <<")">>))

RevLink(s, i) ==
  LET Label(j) == IF j = 0 THEN 0 ELSE FindLit(AnyChar, s, j + 2, <<"]">>) IN
  Label(RevLinkMid(s, i))

RevLinkUrl(s, i, e) == SubSeq(s, i + 1, RevLinkMid(s, i) - 1)

\* the reversed form replaced by its first group, as the standard form is
RevLinkFirstGroup(s, i, e) == SubSeq(s, i + 1, RevLinkMid(s, i) - 1)

RevLinkLabel(s, i, e) == SubSeq(s, RevLinkMid(s, i) + 2, e - 1)

\* (_, label, url) => `${label} ${url.trim()}`.trim()
LabelAndUrl(label, url) ==
  Bind(trim(url), LAMBDA target : trim(label \o <<" ">> \o target))

\* the standard form removed when countMdLinksAsWords is unset
MdLinkRemoved(s, i, e) == <<>>

MdLinkBoth(s, i, e) == LabelAndUrl(MdLinkLabel(s, i, e), MdLinkUrl(s, i, e))

RevLinkBoth(s, i, e) == LabelAndUrl(RevLinkLabel(s, i, e), RevLinkUrl(s, i, e))

\* ResolveMdLinks with the two branches exchanged
ResolveMdLinksExchanged(s, preset) ==
  IF preset.countMdLinksAsWords
  THEN ReplaceAll(RevLink, RevLinkBoth, ReplaceAll(MdLink, MdLinkBoth, s))
  ELSE ReplaceAll(RevLink, RevLinkLabel, ReplaceAll(MdLink, MdLinkLabel, s))

\* Markdown links: keep the label, or the label and the target
ResolveMdLinks(s, preset) ==
  IF preset.countMdLinksAsWords
  THEN ReplaceAll(RevLink, RevLinkLabel, ReplaceAll(MdLink, MdLinkLabel, s))
  ELSE ReplaceAll(RevLink, RevLinkBoth, ReplaceAll(MdLink, MdLinkBoth, s))

\* /\[\[.*?\]\]/g
WikiLazy(s, i) == Delimited(IsDot, s, i, <<"[", "[">>, <<"]", "]">>)

\* /\[\[([^\]|]*)\|?([^\]]*)\]\]/g and /\[\[([^\]]*)\]\]/g match the same spans:
\* "[[", a run without "]", "]]"
WikiClass(s, i) ==
  LET Close(j) == IF j = 0 \/ At(s, j + 1) # "]" THEN 0 ELSE j + 1 IN
  IF ~StartsAt(s, i, <<"[", "[">>) THEN 0
  ELSE Close(FindLit(AnyChar, s, i + 2, <<"]">>))

\* s.replace(/#.*$/, ""): from the first "#" with no line terminator after it
StripAnchor(s) ==
  LET Before(i) == IF i = 0 THEN s ELSE SubSeq(s, 1, i - 1) IN
  Before(Min0({i \in 1..Len(s) :
                 s[i] = "#" /\ \A k \in (i + 1)..Len(s) : IsDot(s[k])}))

\* WikiDisplayText keeping the anchor of the text it keeps
WikiDisplayTextWithAnchor(s, i, e) ==
  LET Kept(alias, page) == IF alias # <<>> THEN alias ELSE page
      Split(inner, bar) ==
        IF bar = 0 THEN trim(inner)
        ELSE Kept(trim(SubSeq(inner, bar + 1, Len(inner))),
                  trim(SubSeq(inner, 1, bar - 1)))
      Of(inner) == Split(inner, Min0({k \in 1..Len(inner) : inner[k] = "|"}))
  IN Of(SubSeq(s, i + 2, e - 2))

\* (_, page, alias) => (alias.trim() || page.trim()).replace(/#.*$/, "").trim()
\* page is the greedy [^\]|]* (up to the first "|"), alias what follows the "|"
WikiDisplayText(s, i, e) ==
  LET Kept(alias, page) == IF alias # <<>> THEN alias ELSE page
      Split(inner, bar) ==
        IF bar = 0 THEN trim(StripAnchor(trim(inner)))
        ELSE trim(StripAnchor(Kept(trim(SubSeq(inner, bar + 1, Len(inner))),
                                   trim(SubSeq(inner, 1, bar - 1)))))
      Of(inner) == Split(inner, Min0({k \in 1..Len(inner) : inner[k] = "|"}))
  IN Of(SubSeq(s, i + 2, e - 2))

\* WikiInnerText replacing the "|" only
WikiInnerTextOfBar(s, i, e) ==
  trim([k \in 1..(e - i - 3) |->
          IF s[i + 1 + k] = "|" THEN " " ELSE s[i + 1 + k]])

\* (_, inner) => inner.replace(/[|#]/g, " ").trim()
WikiInnerText(s, i, e) ==
  trim([k \in 1..(e - i - 3) |->
          IF s[i + 1 + k] \in {"|", "#"} THEN " " ELSE s[i + 1 + k]])

\* ResolveWikiLinks testing countWikiLinkDisplayText before ignoreWikiLinks
ResolveWikiLinksDisplayFirst(s, preset) ==
  IF preset.countWikiLinkDisplayText THEN ReplaceAll(WikiClass, WikiDisplayText, s)
  ELSE IF preset.ignoreWikiLinks THEN ReplaceAll(WikiLazy, Empty, s)
  ELSE ReplaceAll(WikiClass, WikiInnerText, s)

\* ResolveWikiLinks stripping the wiki links when no flag is set
ResolveWikiLinksStripDefault(s, preset) ==
  IF preset.ignoreWikiLinks THEN ReplaceAll(WikiLazy, Empty, s)
  ELSE IF preset.countWikiLinkDisplayText THEN ReplaceAll(WikiClass, WikiDisplayText, s)
  ELSE ReplaceAll(WikiLazy, Empty, s)

\* Wiki links: strip, keep the display text, or keep every word inside
ResolveWikiLinks(s, preset) ==
  IF preset.ignoreWikiLinks THEN ReplaceAll(WikiLazy, Empty, s)
  ELSE IF preset.countWikiLinkDisplayText THEN ReplaceAll(WikiClass, WikiDisplayText, s)
  ELSE ReplaceAll(WikiClass, WikiInnerText, s)

\* /\[@([^\]]+)\]/g
CitekeyPlus(s, i) ==
  LET NonEmpty(j) == IF j = i + 2 THEN 0 ELSE j IN
  IF ~StartsAt(s, i, <<"[", "@">>) THEN 0
  ELSE NonEmpty(FindLit(AnyChar, s, i + 2, <<"]">>))

\* /\[@[^\]]*\]/g
CitekeyStar(s, i) == Delimited(AnyChar, s, i, <<"[", "@">>, <<"]">>)

CitekeyKey(s, i, e) == SubSeq(s, i + 2, e - 1)

\* Citekeys: keep the key as a word token, or strip
ResolveCitekeys(s, preset) ==
  IF preset.countCitekeysAsWords THEN ReplaceAll(CitekeyPlus, CitekeyKey, s)
  ELSE ReplaceAll(CitekeyStar, Empty, s)

\* the index of the last character of the run of class Ok that starts at i
RunEnd(Ok(_), s, i) ==
  Min({j \in i..Len(s) : ~Ok(At(s, j + 1))})

IsHash(c) == c = "#"

\* /#{1,6}\s/g
Heading(s, i) ==
  LET Then(r) == IF r - i + 1 <= 6 /\ IsSpace(At(s, r + 1)) THEN r + 1 ELSE 0 IN
  IF At(s, i) # "#" THEN 0 ELSE Then(RunEnd(IsHash, s, i))

\* /(\*\*|__)(.*?)\1/g
Bold(s, i) ==
  IF StartsAt(s, i, <<"*", "*">>) THEN Delimited(IsDot, s, i, <<"*", "*">>, <<"*", "*">>)
  ELSE Delimited(IsDot, s, i, <<"_", "_">>, <<"_", "_">>)

\* /(\*|_)(.*?)\1/g
Italic(s, i) ==
  IF At(s, i) = "*" THEN Delimited(IsDot, s, i, <<"*">>, <<"*">>)
  ELSE Delimited(IsDot, s, i, <<"_">>, <<"_">>)

\* /~~(.*?)~~/g
Strike(s, i) == Delimited(IsDot, s, i, <<"~", "~">>, <<"~", "~">>)

\* />\s/g
Quote(s, i) == IF At(s, i) = ">" /\ IsSpace(At(s, i + 1)) THEN i + 1 ELSE 0

\* /\|/g
Pipe(s, i) == IF At(s, i) = "|" THEN i ELSE 0

Inside2(s, i, e) == SubSeq(s, i + 2, e - 2)

Inside1(s, i, e) == SubSeq(s, i + 1, e - 1)

\* Inline Markdown decoration: headings, bold, italic, strike, quotes, pipes
StripDecoration(s) ==
  ReplaceAll(Pipe, Empty,
    ReplaceAll(Quote, Empty,
      ReplaceAll(Strike, Inside2,
        ReplaceAll(Italic, Inside1,
          ReplaceAll(Bold, Inside2,
            ReplaceAll(Heading, Empty, s))))))

StripComments(s, preset) ==
  IF preset.ignoreComments
  THEN ReplaceAll(HtmlComment, Empty, ReplaceAll(PercentComment, Empty, s))
  ELSE s

StripCode(s) == ReplaceAll(InlineCode, Empty, ReplaceAll(CodeFence, Empty, s))

StripImages(s) == ReplaceAll(Image, Empty, s)

preprocessBase(raw, preset) ==
  LET Excluded(s) ==
        StripImages(StripCode(StripComments(StripFrontmatter(s), preset)))
      Links(s) ==
        ResolveCitekeys(ResolveWikiLinks(ResolveMdLinks(s, preset), preset), preset)
  IN Bind(Bind(Excluded(raw), Links), StripDecoration)

\* /[-*+]\s/g
BulletAnywhere(s, i) ==
  IF At(s, i) \in {"-", "*", "+"} /\ IsSpace(At(s, i + 1)) THEN i + 1 ELSE 0

\* /\d+\.\s/g
NumberedAnywhere(s, i) ==
  LET Then(r) == IF At(s, r + 1) = "." /\ IsSpace(At(s, r + 2)) THEN r + 2 ELSE 0 IN
  IF ~IsDigit(At(s, i)) THEN 0 ELSE Then(RunEnd(IsDigit, s, i))

preprocessText(raw, preset) ==
  LET Markers(s) ==
        ReplaceAll(NumberedAnywhere, Empty, ReplaceAll(BulletAnywhere, Empty, s))
  IN Bind(preprocessBase(raw, preset), Markers)

\* ── Counters ────────────────────────────────────────────────────────────────

\* trimmed ? trimmed.split(/\s+/).length : 0: the maximal runs of non-space
countWordsWithSpaces(preprocessed) ==
  Cardinality({i \in 1..Len(preprocessed) :
                 /\ ~IsSpace(preprocessed[i])
                 /\ (i = 1 \/ IsSpace(preprocessed[i - 1]))})

\* ^ with the m flag: the start of the text or just after a line terminator
LineStart(s, i) == i = 1 \/ (i > 1 /\ i <= Len(s) + 1 /\ ~IsDot(s[i - 1]))

\* /^- \[[ x]\] /gm
Checkbox(s, i) ==
  IF /\ LineStart(s, i)
     /\ StartsAt(s, i, <<"-", " ", "[">>)
     /\ At(s, i + 3) \in {" ", "x"}
     /\ StartsAt(s, i + 4, <<"]", " ">>)
  THEN i + 5 ELSE 0

\* /^[*\-+] /gm
Unordered(s, i) ==
  IF LineStart(s, i) /\ At(s, i) \in {"*", "-", "+"} /\ At(s, i + 1) = " "
  THEN i + 1 ELSE 0

\* Numbered without the anchor at the line start
NumberedOfAnyPlace(s, i, close) ==
  LET Then(r) == IF At(s, r + 1) = close /\ At(s, r + 2) = " " THEN r + 2 ELSE 0 IN
  IF ~IsDigit(At(s, i)) THEN 0 ELSE Then(RunEnd(IsDigit, s, i))

\* /^\d+\. /gm and /^\d+\) /gm
Numbered(s, i, close) ==
  LET Then(r) == IF At(s, r + 1) = close /\ At(s, r + 2) = " " THEN r + 2 ELSE 0 IN
  IF ~(LineStart(s, i) /\ IsDigit(At(s, i))) THEN 0
  ELSE Then(RunEnd(IsDigit, s, i))

NumberedDot(s, i) == Numbered(s, i, ".")

NumberedParen(s, i) == Numbered(s, i, ")")

PlaceholderU2(s, i, e) == <<X01, X02>>

PlaceholderU1(s, i, e) == <<X01>>

PlaceholderN3(s, i, e) == <<X01, X02, X03>>

PlaceholderN2(s, i, e) == <<X01, X02>>

substituteListMarkers(base, countSpaces) ==
  IF countSpaces
  THEN ReplaceAll(NumberedParen, PlaceholderN3,
         ReplaceAll(NumberedDot, PlaceholderN3,
           ReplaceAll(Unordered, PlaceholderU2,
             ReplaceAll(Checkbox, PlaceholderU2, base))))
  ELSE ReplaceAll(NumberedParen, PlaceholderN2,
         ReplaceAll(NumberedDot, PlaceholderN2,
           ReplaceAll(Unordered, PlaceholderU1,
             ReplaceAll(Checkbox, PlaceholderU1, base))))

\* countCharsWithSpaces leaving the newlines out
countCharsWithSpacesOfLines(base) ==
  Len(SelectSeq(substituteListMarkers(base, TRUE), LAMBDA c : c # NL))

countCharsWithSpaces(base) == Len(substituteListMarkers(base, TRUE))

countCharsWithoutSpaces(base) ==
  Len(SelectSeq(substituteListMarkers(base, FALSE), LAMBDA c : ~IsSpace(c)))

\* countLines without its test of the empty text
countLinesOfSplit(text) == 1 + Cardinality({i \in 1..Len(text) : text[i] = NL})

\* text ? text.split("\n").length : 0
countLines(text) ==
  IF text = <<>> THEN 0 ELSE 1 + Cardinality({i \in 1..Len(text) : text[i] = NL})

IsNL(c) == c = NL

\* /\n{2,}/ (the separator of split): a run of two or more newlines
BlankRun(s, i) ==
  IF At(s, i) = NL /\ At(s, i + 1) = NL THEN RunEnd(IsNL, s, i) ELSE 0

\* s.split(/\n{2,}/): the segments between the separators
RECURSIVE SplitFrom(_, _)
SplitFrom(s, from) ==
  LET First(i) ==
        IF i = 0 THEN <<SubSeq(s, from, Len(s))>>
        ELSE <<SubSeq(s, from, i - 1)>> \o SplitFrom(s, BlankRun(s, i) + 1)
  IN First(Min0({i \in from..Len(s) : BlankRun(s, i) # 0}))

\* countParagraphs counting the segments of white space too
countParagraphsOfSegments(text) ==
  IF text = <<>> THEN 0
  ELSE Len(SplitFrom(StripFrontmatter(text), 1))

countParagraphs(text) ==
  IF text = <<>> THEN 0
  ELSE Len(SelectSeq(SplitFrom(StripFrontmatter(text), 1),
                     LAMBDA b : Len(trim(b)) > 0))

\* /\[.*?\]\(.*?\)/g
MdLinkLazy(s, i) ==
  LET Target(j) == IF j = 0 THEN 0 ELSE FindLit(IsDot, s, j + 2, <<")">>) IN
  IF At(s, i) # "[" THEN 0 ELSE Target(FindLit(IsDot, s, i + 1, <<"]", "(">>))

\* /\(.*?\)\[.*?\]/g
RevLinkLazy(s, i) ==
  LET Label(j) == IF j = 0 THEN 0 ELSE FindLit(IsDot, s, j + 2, <<"]">>) IN
  IF At(s, i) # "(" THEN 0 ELSE Label(FindLit(IsDot, s, i + 1, <<")", "[">>))

\* the matches of the standard form that pass (m) => !m.startsWith("!"),
\* plus the matches of the reversed form
countMarkdownLinks(text) ==
  Len(SelectSeq(Matches(MdLinkLazy, text), LAMBDA m : text[m[1]] # "!"))
  + Len(Matches(RevLinkLazy, text))

countWikiLinks(text) == Len(Matches(WikiLazy, text))

countCitekeys(text) == Len(Matches(CitekeyPlus, text))

\* ── Pages ───────────────────────────────────────────────────────────────────

Digits == <<"0", "1", "2", "3", "4", "5", "6", "7", "8", "9">>

\* `${n}` / String(n) of an integer n
RECURSIVE IntToStr(_)
IntToStr(n) ==
  IF n < 0 THEN <<"-">> \o IntToStr(0 - n)
  ELSE IF n < 10 THEN <<Digits[n + 1]>>
  ELSE IntToStr(n \div 10) \o <<Digits[(n % 10) + 1]>>

\* n / m scaled by a power of two into [1, 2)
RECURSIVE Normalise(_, _)
Normalise(n, m) ==
  IF n >= 2 * m THEN Normalise(n, 2 * m)
  ELSE IF n < m THEN Normalise(2 * n, m)
  ELSE <<n, m>>

\* k more bits of the binary expansion of (1 + r / m): <<remainder, last bit>>
RECURSIVE MantissaBits(_, _, _, _)
MantissaBits(r, m, k, last) ==
  IF k = 0 THEN <<r, last>>
  ELSE IF 2 * r >= m THEN MantissaBits(2 * r - m, m, k - 1, 1)
  ELSE MantissaBits(2 * r, m, k - 1, 0)

\* The sign of (the IEEE-754 double nearest to w / d) - (w / d), for w, d > 0:
\* the 53-bit significand, rounded to nearest, ties to even
DivisionErrorSign(w, d) ==
  LET Sign(r, last, m) ==
        IF r = 0 THEN 0
        ELSE IF 2 * r < m THEN 0 - 1
        ELSE IF 2 * r > m THEN 1
        ELSE IF last = 0 THEN 0 - 1 ELSE 1
      Round(b, m) == Sign(b[1], b[2], m)
      Of(nm) == Round(MantissaBits(nm[1] - nm[2], nm[2], 52, 1), nm[2])
  IN Of(Normalise(w, d))

\* toFixed(1) dropping the digits after the first fractional one
TenthsTruncated(w, d) == (10 * w) \div d

\* The n of Number.prototype.toFixed(1) applied to the double w / d (w >= 0,
\* d > 0): the integer for which n / 10 - x is closest to zero, the larger
\* one when there are two.  x differs from the exact quotient by less than
\* the distance of any quotient of these sizes to the next half tenth, so
\* only an exact half tenth needs the sign of the division error.
Tenths(w, d) ==
  LET Round(t, rem) ==
        IF 2 * rem < d THEN t
        ELSE IF 2 * rem > d THEN t + 1
        ELSE IF DivisionErrorSign(w, d) < 0 THEN t ELSE t + 1
  IN Round((10 * w) \div d, (10 * w) % d)

\* toFixed1 of the magnitude of the quotient, without its sign
toFixed1OfMagnitude(w, d) ==
  LET Format(t) == IntToStr(t \div 10) \o <<".">> \o IntToStr(t % 10) IN
  IF d = 0 THEN Format(0)
  ELSE IF d < 0 THEN Format(Tenths(w, 0 - d))
  ELSE Format(Tenths(w, d))

\* (wordsWithSpaces / preset.wordsPerPage).toFixed(1), for w >= 0 and an
\* integer d.  w / 0 is Infinity, or NaN when w is 0, and toFixed gives
\* String(x) for these; for a negative quotient toFixed writes "-" and the
\* digits of the magnitude; 0 / d for d < 0 is -0, which is not below zero.
toFixed1(w, d) ==
  LET Format(t) == IntToStr(t \div 10) \o <<".">> \o IntToStr(t % 10) IN
  IF d = 0
  THEN (IF w = 0 THEN <<"N", "a", "N">>
        ELSE <<"I", "n", "f", "i", "n", "i", "t", "y">>)
  ELSE IF d < 0
  THEN (IF w = 0 THEN Format(0) ELSE <<"-">> \o Format(Tenths(w, 0 - d)))
  ELSE Format(Tenths(w, d))

\* ── Presets ─────────────────────────────────────────────────────────────────

VisibilityKeys ==
  <<"showWordsWithSpaces", "showCharsWithSpaces", "showCharsWithoutSpaces",
    "showPages", "showLines", "showParagraphs", "showMarkdownLinks",
    "showWikiLinks", "showCitekeys">>

InclusionKeys ==
  {"countMdLinksAsWords", "ignoreWikiLinks", "countWikiLinkDisplayText",
   "countCitekeysAsWords", "ignoreComments"}

DefaultWordsPerPage == 250

defaultPreset(id, name) ==
  [id |-> id, name |-> name, wordsPerPage |-> DefaultWordsPerPage,
   showWordsWithSpaces |-> TRUE, showCharsWithSpaces |-> FALSE,
   showCharsWithoutSpaces |-> FALSE, showPages |-> TRUE, showLines |-> FALSE,
   showParagraphs |-> FALSE, showMarkdownLinks |-> FALSE,
   showWikiLinks |-> FALSE, showCitekeys |-> FALSE,
   countMdLinksAsWords |-> FALSE, countWikiLinkDisplayText |-> FALSE,
   ignoreWikiLinks |-> FALSE, countCitekeysAsWords |-> FALSE,
   ignoreComments |-> TRUE]

\* the index in list of the preset settings.presets.find returns, 0: undefined
getActivePreset(list, id) == Min0({k \in 1..Len(list) : list[k].id = id})

\* ── Status bar ──────────────────────────────────────────────────────────────

\* updateCount counting the lines of the preprocessed text, not of the raw
computeMetricsLinesOfBase(raw, preset) ==
  LET Record(base, wordsWithSpaces) ==
        [wordsWithSpaces |-> wordsWithSpaces,
         charsWithSpaces |-> countCharsWithSpaces(base),
         charsWithoutSpaces |-> countCharsWithoutSpaces(base),
         pages |-> toFixed1(wordsWithSpaces, preset.wordsPerPage),
         lines |-> countLines(base),
         paragraphs |-> countParagraphs(raw),
         markdownLinks |-> countMarkdownLinks(raw),
         wikiLinks |-> countWikiLinks(raw),
         citekeys |-> countCitekeys(raw)]
      Words(base) ==
        Bind(Bind(preprocessText(raw, preset), countWordsWithSpaces),
             LAMBDA wordsWithSpaces : Record(base, wordsWithSpaces))
  IN Bind(preprocessBase(raw, preset), Words)

\* the Metrics record updateCount builds from the view data
computeMetrics(raw, preset) ==
  LET Record(base, wordsWithSpaces) ==
        [wordsWithSpaces |-> wordsWithSpaces,
         charsWithSpaces |-> countCharsWithSpaces(base),
         charsWithoutSpaces |-> countCharsWithoutSpaces(base),
         pages |-> toFixed1(wordsWithSpaces, preset.wordsPerPage),
         lines |-> countLines(raw),
         paragraphs |-> countParagraphs(raw),
         markdownLinks |-> countMarkdownLinks(raw),
         wikiLinks |-> countWikiLinks(raw),
         citekeys |-> countCitekeys(raw)]
      Words(base) ==
        Bind(Bind(preprocessText(raw, preset), countWordsWithSpaces),
             LAMBDA wordsWithSpaces : Record(base, wordsWithSpaces))
  IN Bind(preprocessBase(raw, preset), Words)

\* The status text is kept as its pieces: a piece is a fixed label of the
\* locale and the text of a value.
Piece(label, value) == [label |-> label, value |-> value]

\* buildStatusText without its filter
buildStatusTextOfAll(preset, m) ==
  <<[show |-> TRUE, piece |-> Piece("Words: ", IntToStr(m.wordsWithSpaces))],
    [show |-> TRUE, piece |-> Piece("Chars: ", IntToStr(m.charsWithSpaces))],
    [show |-> TRUE,
     piece |-> Piece("Chars (no spaces): ", IntToStr(m.charsWithoutSpaces))],
    [show |-> TRUE, piece |-> Piece("Pages: ", m.pages)],
    [show |-> TRUE, piece |-> Piece("Lines: ", IntToStr(m.lines))],
    [show |-> TRUE, piece |-> Piece("Paras: ", IntToStr(m.paragraphs))],
    [show |-> TRUE, piece |-> Piece("MD Links: ", IntToStr(m.markdownLinks))],
    [show |-> TRUE, piece |-> Piece("Wikilinks: ", IntToStr(m.wikiLinks))],
    [show |-> TRUE, piece |-> Piece("Citekeys: ", IntToStr(m.citekeys))]>>

buildStatusText(preset, m) ==
  LET Shown(all) == SelectSeq(all, LAMBDA x : x.show)
      Entry(k, piece) == [show |-> preset[VisibilityKeys[k]], piece |-> piece]
  IN Shown(<<Entry(1, Piece("Words: ", IntToStr(m.wordsWithSpaces))),
             Entry(2, Piece("Chars: ", IntToStr(m.charsWithSpaces))),
             Entry(3, Piece("Chars (no spaces): ", IntToStr(m.charsWithoutSpaces))),
             Entry(4, Piece("Pages: ", m.pages)),
             Entry(5, Piece("Lines: ", IntToStr(m.lines))),
             Entry(6, Piece("Paras: ", IntToStr(m.paragraphs))),
             Entry(7, Piece("MD Links: ", IntToStr(m.markdownLinks))),
             Entry(8, Piece("Wikilinks: ", IntToStr(m.wikiLinks))),
             Entry(9, Piece("Citekeys: ", IntToStr(m.citekeys)))>>)

NoView == <<"NoView">>

\* no Metrics record: updateCount returned before it built one
NoMetrics == [none |-> TRUE]

\* updateCount: what it passes to setText, and the Metrics record it builds
updateCount(list, id, v) ==
  LET Label(preset) ==
        IF Len(list) > 1 THEN <<Piece("[]  ", <<preset.name>>)>> ELSE <<>>
      Stats(shown) ==
        IF shown = <<>> THEN <<Piece("No metrics enabled", <<>>)>>
        ELSE [k \in 1..Len(shown) |-> shown[k].piece]
      Show(preset, m) ==
        [text |-> Label(preset) \o Stats(buildStatusText(preset, m)), metrics |-> m]
      With(k) ==
        IF k = 0 THEN [text |-> <<Piece("No preset", <<>>)>>, metrics |-> NoMetrics]
        ELSE IF v = NoView THEN [text |-> <<>>, metrics |-> NoMetrics]
        ELSE Bind(computeMetrics(v, list[k]), LAMBDA m : Show(list[k], m))
  IN With(getActivePreset(list, id))

\* ── Commands ────────────────────────────────────────────────────────────────

\* `word-count-activate-preset-${preset.id}`
CommandId(id) == <<"word-count-activate-preset-", id>>

\* `Switch to ${name}`
commandActivatePreset(name) == <<"Switch to ", name>>

\* registerPresetCommand(preset) on the set ids and the registry cmds: nothing
\* when the id is in the set, else addCommand and ids.add
registerPresetCommand(reg, preset) ==
  IF CommandId(preset.id) \in reg.ids THEN reg
  ELSE [ids |-> reg.ids \cup {CommandId(preset.id)},
        cmds |-> [c \in DOMAIN reg.cmds \cup {CommandId(preset.id)} |->
                    IF c = CommandId(preset.id)
                    THEN commandActivatePreset(preset.name) ELSE reg.cmds[c]]]

\* registerAllPresetCommands(): registerPresetCommand for every preset in turn
RECURSIVE registerAllPresetCommands(_, _)
registerAllPresetCommands(reg, list) ==
  IF list = <<>> THEN reg
  ELSE registerAllPresetCommands(registerPresetCommand(reg, Head(list)), Tail(list))

\* Removed removing nothing
RemovedOfNone(reg, gone) == reg

\* removeCommand(cmdId) and ids.delete(cmdId) for every cmdId of gone
Removed(reg, gone) ==
  [ids |-> reg.ids \ gone,
   cmds |-> [c \in DOMAIN reg.cmds \ gone |-> reg.cmds[c]]]

\* removePresetCommand(preset)
removePresetCommand(reg, preset) == Removed(reg, {CommandId(preset.id)})

\* refreshPresetCommands(): the ids whose preset (the id with the prefix
\* replaced by "") is gone are removed, every preset is registered, and every
\* preset's command gets the name of the preset
refreshPresetCommands(reg, list) ==
  LET stale == {c \in reg.ids : \A k \in 1..Len(list) : list[k].id # c[2]}
      Renamed(r) ==
        [ids |-> r.ids,
         cmds |-> [c \in DOMAIN r.cmds |->
                     IF \E k \in 1..Len(list) : CommandId(list[k].id) = c
                     THEN commandActivatePreset(
                            list[Max({k \in 1..Len(list) :
                                        CommandId(list[k].id) = c})].name)
                     ELSE r.cmds[c]]]
  IN Renamed(registerAllPresetCommands(Removed(reg, stale), list))

\* the set and the registry, as one record
Registry == [ids |-> registeredCommandIds, cmds |-> commands]

\* the set and the registry become those of reg
Registered(reg) == registeredCommandIds' = reg.ids /\ commands' = reg.cmds

\* ── Handlers ────────────────────────────────────────────────────────────────

\* the updateCount() that ends a handler, on the state the handler leaves
Refresh ==
  LET Set(r) == statusText' = r.text /\ metrics' = r.metrics IN
  Set(updateCount(presets', activePresetId', view'))

\* workspace.on("editor-change"): the user typed the text f at the end of the
\* note; D bounds the notes of the model
EditorChange(f, D) ==
  /\ view # NoView
  /\ (view \o f) \in D
  /\ view' = view \o f
  /\ UNCHANGED <<presets, activePresetId, registeredCommandIds, commands, pending>>
  /\ Refresh

\* workspace.on("active-leaf-change"): another note, or a leaf that is no
\* MarkdownView, becomes active
ActiveLeafChange(v) ==
  /\ v # view
  /\ view' = v
  /\ UNCHANGED <<presets, activePresetId, registeredCommandIds, commands, pending>>
  /\ Refresh

\* activatePreset(id)
activatePreset(id) ==
  /\ activePresetId' = id
  /\ UNCHANGED <<presets, view, registeredCommandIds, commands, pending>>
  /\ Refresh

\* cyclePreset going back to the first preset at every click
cycleTargetOfFirst(list, id) == list[1].id

\* presets[(idx + 1) % presets.length].id, idx the findIndex of the active
\* preset (-1 when there is none)
cycleTarget(list, id) == list[(getActivePreset(list, id) % Len(list)) + 1].id

\* the click on the status bar; with at most one preset it returns at once
cyclePreset ==
  IF Len(presets) <= 1 THEN UNCHANGED vars
  ELSE activatePreset(cycleTarget(presets, activePresetId))

\* the "Set active" button in the card of presets[k], shown when the preset
\* is not the active one
SetActive(k) ==
  /\ k \in 1..Len(presets)
  /\ presets[k].id # activePresetId
  /\ activatePreset(presets[k].id)

\* WordCountSettingTab.save(), after a handler of the settings tab changed
\* the presets: refreshPresetCommands(), saveSettings(), updateCount()
save ==
  /\ Registered(refreshPresetCommands(Registry, presets'))
  /\ UNCHANGED <<activePresetId, view, pending>>
  /\ Refresh

\* renderToggleChip: the click on the chip of key in the card of presets[k]
ToggleChip(k, key) ==
  /\ k \in 1..Len(presets)
  /\ presets' = [presets EXCEPT ![k][key] = ~@]
  /\ save

\* the string of the chars cs
RECURSIVE Text(_)
Text(cs) == IF cs = <<>> THEN "" ELSE cs[1] \o Text(Tail(cs))

\* the change of the name input in the card of presets[k]:
\* preset.name = nameInput.value.trim() || t.unnamedPreset
RenamePreset(k, text) ==
  /\ k \in 1..Len(presets)
  /\ presets' = [presets EXCEPT
                   ![k].name = IF trim(text) = <<>> THEN "Unnamed"
                               ELSE Text(trim(text))]
  /\ save

\* `Preset ${n}`
newPresetName(n) == <<"Preset 1", "Preset 2", "Preset 3", "Preset 4", "Preset 5">>[n]

\* the "Add preset" button; id is what crypto.randomUUID() returns, an id
\* that no preset has
AddPreset(id) ==
  /\ \A k \in 1..Len(presets) : presets[k].id # id
  /\ presets' = Append(presets, defaultPreset(id, newPresetName(Len(presets) + 1)))
  /\ save

\* the delete button in the card of presets[k], confirmed in the modal
DeletePreset(k) ==
  LET Rest == SelectSeq(presets, LAMBDA q : q.id # presets[k].id)
      First == IF Rest = <<>> THEN "" ELSE Rest[1].id
  IN /\ k \in 1..Len(presets)
     /\ presets' = Rest
     /\ activePresetId' = IF activePresetId = presets[k].id THEN First
                          ELSE activePresetId
     /\ Registered(refreshPresetCommands(removePresetCommand(Registry, presets[k]),
                                         Rest))
     /\ UNCHANGED <<view, pending>>
     /\ Refresh

\* parseInt(text): leading white space, a sign, then the longest run of digits
RECURSIVE DigitsValue(_)
DigitsValue(ds) ==
  IF ds = <<>> THEN 0
  ELSE 10 * DigitsValue(SubSeq(ds, 1, Len(ds) - 1))
       + (CHOOSE v \in 0..9 : Digits[v + 1] = ds[Len(ds)])

parseInt(text) ==
  LET Number(body, neg) ==
        IF ~IsDigit(At(body, 1)) THEN [nan |-> TRUE, n |-> 0]
        ELSE [nan |-> FALSE,
              n |-> (IF neg THEN 0 - 1 ELSE 1)
                    * DigitsValue(SubSeq(body, 1, RunEnd(IsDigit, body, 1)))]
      Signed(t) ==
        IF At(t, 1) \in {"-", "+"} THEN Number(SubSeq(t, 2, Len(t)), At(t, 1) = "-")
        ELSE Number(t, FALSE)
      From(i) == IF i = 0 THEN Signed(<<>>) ELSE Signed(SubSeq(text, i, Len(text)))
  IN From(Min0({i \in 1..Len(text) : ~IsSpace(text[i])}))

\* the change of the words-per-page input in the card of presets[k]
SetWordsPerPage(k, text) ==
  LET Set(n) ==
        IF ~n.nan /\ n.n > 0
        THEN presets' = [presets EXCEPT ![k].wordsPerPage = n.n] /\ save
        ELSE UNCHANGED vars
  IN k \in 1..Len(presets) /\ Set(parseInt(text))

\* ── Handlers, step by step ──────────────────────────────────────────────────

\* await this.saveSettings(): the handler stops here, the status bar as it is,
\* and goes on when the save is done
Suspended == pending' = pending + 1 /\ UNCHANGED <<statusText, metrics>>

\* a suspended handler going on without its updateCount()
ResumedOfNothing ==
  /\ pending > 0
  /\ pending' = pending - 1
  /\ UNCHANGED <<presets, activePresetId, view, registeredCommandIds, commands,
                 statusText, metrics>>

\* a suspended handler going on with an updateCount() that makes the first
\* preset the active one
ResumedOfFirst ==
  /\ pending > 0
  /\ pending' = pending - 1
  /\ activePresetId' = presets[1].id
  /\ UNCHANGED <<presets, view, registeredCommandIds, commands>>
  /\ Refresh

\* the save of a suspended handler is done: the handler goes on with its
\* updateCount(), on the settings and the view as they are by then
Resumed ==
  /\ pending > 0
  /\ pending' = pending - 1
  /\ UNCHANGED <<presets, activePresetId, view, registeredCommandIds, commands>>
  /\ Refresh

\* activatePreset(id) up to its await
activatePresetAwait(id) ==
  /\ activePresetId' = id
  /\ UNCHANGED <<presets, view, registeredCommandIds, commands>>
  /\ Suspended

\* cyclePreset() up to the await of its activatePreset
cyclePresetAwait ==
  IF Len(presets) <= 1 THEN UNCHANGED vars
  ELSE activatePresetAwait(cycleTarget(presets, activePresetId))

\* WordCountSettingTab.save() up to its await
saveAwait ==
  /\ Registered(refreshPresetCommands(Registry, presets'))
  /\ UNCHANGED <<activePresetId, view>>
  /\ Suspended

\* the click on a chip up to the await of its save
ToggleChipAwait(k, key) ==
  /\ k \in 1..Len(presets)
  /\ presets' = [presets EXCEPT ![k][key] = ~@]
  /\ saveAwait

\* SetWordsPerPageAwait taking every number that parseInt reads
SetWordsPerPageAwaitOfAny(k, text) ==
  LET Set(n) ==
        IF ~n.nan
        THEN presets' = [presets EXCEPT ![k].wordsPerPage = n.n] /\ saveAwait
        ELSE UNCHANGED vars
  IN k \in 1..Len(presets) /\ Set(parseInt(text))

\* the change of the words-per-page input up to the await of its save
SetWordsPerPageAwait(k, text) ==
  LET Set(n) ==
        IF ~n.nan /\ n.n > 0
        THEN presets' = [presets EXCEPT ![k].wordsPerPage = n.n] /\ saveAwait
        ELSE UNCHANGED vars
  IN k \in 1..Len(presets) /\ Set(parseInt(text))

\* ── Notes ───────────────────────────────────────────────────────────────────

\* the texts made of at most n of the fragments F, typed one after the other
RECURSIVE Docs(_, _)
Docs(F, n) ==
  LET Longer(D) == D \cup {d \o f : d \in D, f \in F} IN
  IF n = 0 THEN {<<>>} ELSE Longer(Docs(F, n - 1))

\* the state onload leaves: the presets it loaded, an active preset, the
\* text of the active view counted
Loaded(list, v) ==
  /\ presets = list
  /\ activePresetId = list[1].id
  /\ view = v
  /\ LET reg == registerAllPresetCommands([ids |-> {}, cmds |-> <<>>], list)
     IN registeredCommandIds = reg.ids /\ commands = reg.cmds
  /\ pending = 0
  /\ LET Set(r) == statusText = r.text /\ metrics = r.metrics IN
     Set(updateCount(list, list[1].id, v))

\* the active preset
Active == presets[getActivePreset(presets, activePresetId)]

\* a preset with every flag of the default preset inverted
InvertedPreset(id, name, wpp) ==
  [k \in DOMAIN defaultPreset(id, name) |->
     IF k = "id" THEN id
     ELSE IF k = "name" THEN name
     ELSE IF k = "wordsPerPage" THEN wpp
     ELSE ~defaultPreset(id, name)[k]]

\* the note of n words "a", each followed by a space
Words(n) == [k \in 1..(2 * n) |-> IF k % 2 = 1 THEN "a" ELSE " "]

\* ── The plugin with two presets over notes of mixed markup ──────────────────

MaxFrags == 2

Frags ==
  {<<"a">>, <<" ">>, <<NL>>, <<"%", "%">>, <<"[", "[", "b", "]", "]">>,
   <<"[", "@", "k", "]">>, <<"[", "l", "]", "(", "u", ")">>}

Notes == Docs(Frags, MaxFrags)

ToggleKeys == {"ignoreComments", "showLines"}

Init ==
  Loaded(<<defaultPreset("p1", "New preset"), InvertedPreset("p2", "Preset 2", 300)>>,
         <<>>)

Next ==
  \/ \E f \in Frags : EditorChange(f, Notes)
  \/ ActiveLeafChange(NoView)
  \/ ActiveLeafChange(<<>>)
  \/ cyclePreset
  \/ \E k \in 1..2, key \in ToggleKeys : ToggleChip(k, key)

Spec == Init /\ [][Next]_vars

\* ── One preset over notes of words and wiki links, and two opened notes ─────

MaxWikiFrags == 3

WikiFrags ==
  {<<"a">>, <<" ">>, <<"[", "[", "b", "]", "]">>,
   <<"[", "[", "b", "|", "c", "]", "]">>,
   <<"[", "[", "b", "#", "d", "]", "]">>,
   <<"[", "[", "b", "#", "d", "|", "c", "]", "]">>}

WikiNotes == Docs(WikiFrags, MaxWikiFrags)

HelloWorld ==
  <<"H", "e", "l", "l", "o", " ", "[", "[", "W", "o", "r", "l", "d", "]",
    "]", " ", "a", "n", "d", " ", "[", "@", "d", "o", "e", "2", "0", "2",
    "0", "]", ".">>

SeeDocs ==
  <<"S", "e", "e", " ", "[", "d", "o", "c", "s", "]", "(", "h", "t", "t",
    "p", ":", "/", "/", "x", ")", " ", "a", "n", "d", " ", "!", "[", "i",
    "m", "g", "]", "(", "h", "t", "t", "p", ":", "/", "/", "y", ")">>

WikiToggleKeys == {"ignoreWikiLinks", "countWikiLinkDisplayText", "countCitekeysAsWords"}

InitWiki == Loaded(<<defaultPreset("p1", "New preset")>>, <<>>)

NextWiki ==
  \/ \E f \in WikiFrags : EditorChange(f, WikiNotes)
  \/ \E v \in {<<>>, HelloWorld, SeeDocs} : ActiveLeafChange(v)
  \/ \E key \in WikiToggleKeys : ToggleChip(1, key)

SpecWiki == InitWiki /\ [][NextWiki]_vars

\* ── One preset over notes that begin with dashes ────────────────────────────

MaxFrontFrags == 4

FrontFrags == {<<"-", "-", "-">>, <<NL>>, <<"a">>, <<" ">>}

FrontNotes == Docs(FrontFrags, MaxFrontFrags)

InitFront == Loaded(<<defaultPreset("p1", "New preset")>>, <<>>)

NextFront ==
  \/ \E f \in FrontFrags : EditorChange(f, FrontNotes)
  \/ ToggleChip(1, "ignoreComments")

SpecFront == InitFront /\ [][NextFront]_vars

\* ── One preset, its words-per-page input, and notes of plain words ──────────

MaxWords == 14

PageNotes == {Words(n) : n \in 0..MaxWords} \cup {Words(375)}

WordsPerPageInputs ==
  {<<"2", "5", "0">>, <<"2", "0">>, <<"4", "0">>, <<"7">>, <<"4">>, <<"3">>,
   <<"1", "2", "p", "x">>, <<" ", "7">>, <<"0">>, <<"-", "5">>, <<"x">>, <<>>}

InitPages == Loaded(<<defaultPreset("p1", "New preset")>>, <<>>)

NextPages ==
  \/ \E v \in PageNotes : ActiveLeafChange(v)
  \/ \E text \in WordsPerPageInputs : SetWordsPerPage(1, text)

SpecPages == InitPages /\ [][NextPages]_vars

\* ── One preset over notes of words and Markdown links ───────────────────────

MaxLinkFrags == 3

LinkFrags ==
  {<<"x">>, <<" ">>, <<"[", "l", "]", "(", "t", ")">>,
   <<"(", "t", " ", "u", ")", "[", "l", "]">>,
   <<"[", "l", " ", "m", "]", "(", "t", ")">>}

LinkNotes == Docs(LinkFrags, MaxLinkFrags)

InitLinks == Loaded(<<defaultPreset("p1", "New preset")>>, <<>>)

NextLinks ==
  \/ \E f \in LinkFrags : EditorChange(f, LinkNotes)
  \/ ToggleChip(1, "countMdLinksAsWords")

SpecLinks == InitLinks /\ [][NextLinks]_vars

\* ── One preset over notes of words and comments ─────────────────────────────

MaxCommentFrags == 3

\* a comment of two lines that holds a code fence and a wiki link
PercentNote ==
  <<"%", "%", "a", NL, BT, BT, BT, "[", "[", "b", "]", "]", "%", "%">>

\* a comment of two lines that holds a link and a citekey
HtmlNote ==
  <<"<", "!", "-", "-", "a", NL, "[", "l", "]", "(", "t", ")",
    "[", "@", "k", "]", "-", "-", ">">>

\* a comment that holds the delimiter of the other kind
HtmlPercent == <<"<", "!", "-", "-", "%", "%", "-", "-", ">">>

\* a fenced code block that holds the comment delimiter: ```%%```
FencedPercent == <<BT, BT, BT, "%", "%", BT, BT, BT>>

\* an inline code span: `a`
InlineSpan == <<BT, "a", BT>>

CommentFrags ==
  {<<"a">>, <<" ">>, <<NL>>, <<"%", "%">>, <<BT, BT, BT>>,
   PercentNote, HtmlNote, HtmlPercent, FencedPercent, InlineSpan}

CommentNotes == Docs(CommentFrags, MaxCommentFrags)

InitComments == Loaded(<<defaultPreset("p1", "New preset")>>, <<>>)

NextComments ==
  \/ \E f \in CommentFrags : EditorChange(f, CommentNotes)
  \/ ToggleChip(1, "ignoreComments")

SpecComments == InitComments /\ [][NextComments]_vars

\* ── One preset over notes of words, white space and list markers ────────────

MaxListFrags == 3

WhiteFrags == {<<" ">>, <<TAB>>, <<NL>>}

UnorderedFrags == {<<"-", " ">>, <<"*", " ">>, <<"+", " ">>}

NumberedFrags == {<<"1", ".", " ">>, <<"1", "2", ")", " ">>}

CheckboxFrags ==
  {<<"-", " ", "[", "x", "]", " ">>, <<"-", " ", "[", " ", "]", " ">>}

ListFrags ==
  {<<"a">>} \cup WhiteFrags \cup UnorderedFrags \cup NumberedFrags
    \cup CheckboxFrags

ListNotes == Docs(ListFrags, MaxListFrags)

InitLists == Loaded(<<defaultPreset("p1", "New preset")>>, <<>>)

NextLists ==
  \/ \E f \in ListFrags : EditorChange(f, ListNotes)
  \/ ToggleChip(1, "showCharsWithSpaces")

SpecLists == InitLists /\ [][NextLists]_vars

\* ── One preset with its nine visibility chips, over three notes ─────────────

VisibilityNotes == {<<>>, HelloWorld, SeeDocs}

InitVisibility == Loaded(<<defaultPreset("p1", "New preset")>>, <<>>)

NextVisibility ==
  \/ \E v \in VisibilityNotes : ActiveLeafChange(v)
  \/ \E k \in 1..Len(VisibilityKeys) : ToggleChip(1, VisibilityKeys[k])

SpecVisibility == InitVisibility /\ [][NextVisibility]_vars

\* ── One preset loaded with any words per page, over notes of plain words ────

\* the values of wordsPerPage in the data loadSettings reads
LoadedWordsPerPage == {0, 0 - 1, 0 - 4, 0 - 250, 3, 250}

LoadedNotes == {Words(n) : n \in 0..MaxWords}

InitLoaded ==
  \E d \in LoadedWordsPerPage :
    Loaded(<<[defaultPreset("p1", "New preset") EXCEPT !.wordsPerPage = d]>>, <<>>)

NextLoaded ==
  \/ \E v \in LoadedNotes : ActiveLeafChange(v)
  \/ \E text \in {<<"0">>, <<"7">>} : SetWordsPerPage(1, text)

SpecLoaded == InitLoaded /\ [][NextLoaded]_vars

\* ── One preset over notes of wiki links with blank aliases and anchors ──────

MaxAliasFrags == 3

AliasFrags ==
  {<<"a">>, <<" ">>,
   <<"[", "[", "b", "|", "c", "]", "]">>,
   <<"[", "[", "b", "#", "d", "]", "]">>,
   <<"[", "[", "b", "#", "d", "|", " ", "]", "]">>,
   <<"[", "[", "b", "|", "c", " ", "#", "d", "]", "]">>}

AliasNotes == Docs(AliasFrags, MaxAliasFrags)

InitAlias == Loaded(<<defaultPreset("p1", "New preset")>>, <<>>)

NextAlias ==
  \/ \E f \in AliasFrags : EditorChange(f, AliasNotes)
  \/ ToggleChip(1, "countWikiLinkDisplayText")

SpecAlias == InitAlias /\ [][NextAlias]_vars

\* ── Two presets, the handlers suspended at their saves ───────────────────────

MaxPending == 2

AsyncNotes == {NoView, <<>>, <<"a">>, <<"a", " ", "%", "%", "a", "%", "%">>}

AsyncInputs ==
  {<<"7">>, <<"0">>, <<"-", "5">>, <<"x">>, <<>>, <<"0", ".", "5">>,
   <<"1", "2", ".", "7">>}

NextAsync ==
  \/ EditorChange(<<"a">>, AsyncNotes)
  \/ \E v \in AsyncNotes : ActiveLeafChange(v)
  \/ pending < MaxPending /\ cyclePresetAwait
  \/ pending < MaxPending /\ ToggleChipAwait(1, "ignoreComments")
  \/ \E text \in AsyncInputs :
       pending < MaxPending /\ SetWordsPerPageAwait(1, text)
  \/ Resumed

SpecAsync == Init /\ [][NextAsync]_vars

\* ── The presets added, deleted, activated and cycled over one note ──────────

MaxPresets == 3

PresetIds == {"p1", "p2", "p3", "p4"}

InitCycle == Loaded(<<defaultPreset("p1", "New preset")>>, <<"a">>)

\* what is typed into the name input of the first card
NameInputs == {<<" ">>, <<"d", " ">>}

NextCycle ==
  \/ cyclePreset
  \/ \E k \in 1..MaxPresets : SetActive(k)
  \/ \E id \in PresetIds : Len(presets) < MaxPresets /\ AddPreset(id)
  \/ \E k \in 1..MaxPresets : DeletePreset(k)
  \/ \E text \in NameInputs : RenamePreset(1, text)
  \/ ToggleChip(1, "showLines")

SpecCycle == InitCycle /\ [][NextCycle]_vars

\* ── Properties ──────────────────────────────────────────────────────────────

\* the five counts taken from the raw text
Structural(m) == <<m.lines, m.paragraphs, m.markdownLinks, m.wikiLinks, m.citekeys>>

\* C1: while the text of the note stays the same, no change of the preset in
\* use (another preset becoming active, a flag of a preset toggled) changes
\* lines, paragraphs, markdownLinks, wikiLinks or citekeys.
C1_StructuralCountsIgnorePreset ==
  [][(view' = view /\ metrics # NoMetrics /\ metrics' # NoMetrics)
       => Structural(metrics') = Structural(metrics)]_vars

\* the note "[[b]][@k]" counted under the second preset, which differs from
\* the first in every flag and in its words per page
C1_Witness ==
  /\ activePresetId = "p2"
  /\ view = <<"[", "[", "b", "]", "]", "[", "@", "k", "]">>
  /\ metrics # NoMetrics
  /\ Structural(metrics) = <<1, 1, 0, 1, 1>>

\* C4: the empty note has zero words, lines, paragraphs, Markdown links, wiki
\* links, citekeys and characters (with and without spaces), under any preset.
C4_EmptyNoteCountsZero ==
  (view = <<>> /\ metrics # NoMetrics) =>
    /\ metrics.wordsWithSpaces = 0
    /\ metrics.charsWithSpaces = 0
    /\ metrics.charsWithoutSpaces = 0
    /\ Structural(metrics) = <<0, 0, 0, 0, 0>>

\* the empty note counted under the second preset with its chips toggled
C4_Witness ==
  /\ view = <<>>
  /\ activePresetId = "p2"
  /\ presets[2].ignoreComments
  /\ metrics # NoMetrics
  /\ metrics.wordsWithSpaces = 0

\* the number of words of text read char by char: Sep(text, k) says that the
\* k-th char separates words, Skip(text, k) that it is markup between the chars
\* of a word; a word is counted at its first char
RefWords(text, Sep(_, _), Skip(_, _)) ==
  LET Letter(k) == ~Sep(text, k) /\ ~Skip(text, k)
      Joined(j, k) == \A m \in (j + 1)..(k - 1) : ~Sep(text, m)
  IN Cardinality({k \in 1..Len(text) :
                    Letter(k) /\ \A j \in 1..(k - 1) : ~(Letter(j) /\ Joined(j, k))})

\* C2: with ignoreWikiLinks set before and after, a step that keeps the note
\* (a toggle of countWikiLinkDisplayText among them) keeps wordsWithSpaces.
C2_IgnoreWikiLinksTakesPrecedence ==
  [][(/\ presets[1].ignoreWikiLinks /\ presets'[1].ignoreWikiLinks
      /\ view' = view /\ metrics # NoMetrics /\ metrics' # NoMetrics)
       => metrics'.wordsWithSpaces = metrics.wordsWithSpaces]_vars

\* a note of a word and two aliased wiki links, both flags set
C2_Witness ==
  /\ presets[1].ignoreWikiLinks /\ presets[1].countWikiLinkDisplayText
  /\ view = <<"a", "[", "[", "b", "|", "c", "]", "]",
              "[", "[", "b", "#", "d", "|", "c", "]", "]">>
  /\ metrics # NoMetrics
  /\ metrics.wordsWithSpaces = 1

WikiSep(text, k) == IsSpace(text[k]) \/ text[k] \in {"|", "#"}

WikiSkip(text, k) == text[k] \in {"[", "]"}

\* C5: with ignoreWikiLinks and countWikiLinkDisplayText both unset, the words
\* of a note of words and wiki links are the words read with the brackets left
\* out and "|" and "#" read as white space; and "Hello [[World]] and
\* [@doe2020]." has 4 words when countCitekeysAsWords and ignoreComments are set.
C5_WikiInnerTextCounted ==
  (/\ metrics # NoMetrics
   /\ ~presets[1].ignoreWikiLinks /\ ~presets[1].countWikiLinkDisplayText) =>
    /\ view \in WikiNotes
          => metrics.wordsWithSpaces = RefWords(view, WikiSep, WikiSkip)
    /\ (/\ view = HelloWorld
        /\ presets[1].countCitekeysAsWords /\ presets[1].ignoreComments)
          => metrics.wordsWithSpaces = 4

\* a word followed by a wiki link with a heading and an alias: "ab", "d", "c"
C5_Witness ==
  /\ ~presets[1].ignoreWikiLinks /\ ~presets[1].countWikiLinkDisplayText
  /\ view = <<"a", "[", "[", "b", "#", "d", "|", "c", "]", "]">>
  /\ metrics # NoMetrics
  /\ metrics.wordsWithSpaces = 3

\* the flags of the example of C6
C6_Flags ==
  /\ view = HelloWorld
  /\ metrics # NoMetrics
  /\ ~presets[1].ignoreWikiLinks /\ ~presets[1].countWikiLinkDisplayText
  /\ presets[1].ignoreComments /\ ~presets[1].countCitekeysAsWords

NonImageLinks(text) ==
  Len(SelectSeq(Matches(MdLinkLazy, text), LAMBDA m : At(text, m[1] - 1) # "!"))
  + Len(Matches(RevLinkLazy, text))

\* C7 as stated: markdownLinks is the number of links of the standard form not
\* preceded by "!" plus the number of links of the reversed form; "See
\* [docs](http://x) and ![img](http://y)" has 1.
C7_AsStated ==
  metrics # NoMetrics =>
    /\ metrics.markdownLinks = NonImageLinks(view)
    /\ view = SeeDocs => metrics.markdownLinks = 1

\* C3 as stated: whenever the note is "---", a metadata content M, "---", a
\* newline and a body B, its wordsWithSpaces and paragraphs are those of B
\* counted alone under the same preset.
C3_AsStated ==
  metrics # NoMetrics =>
    \A m \in 0..(Len(view) - 7) :
      LET B == SubSeq(view, 8 + m, Len(view)) IN
      (/\ StartsAt(view, 1, <<"-", "-", "-">>)
       /\ StartsAt(view, 4 + m, <<"-", "-", "-", NL>>)) =>
        /\ metrics.wordsWithSpaces = computeMetrics(B, Active).wordsWithSpaces
        /\ metrics.paragraphs = computeMetrics(B, Active).paragraphs

\* the number of tenths a pages text stands for, -1 when the text is not a
\* decimal numeral with exactly one fractional digit
PagesTenths(p) ==
  LET Whole == SubSeq(p, 1, Len(p) - 2) IN
  IF /\ Len(p) >= 3
     /\ p[Len(p) - 1] = "."
     /\ IsDigit(p[Len(p)])
     /\ \A k \in 1..Len(Whole) : IsDigit(Whole[k])
     /\ (Len(Whole) = 1 \/ Whole[1] # "0")
  THEN DigitsValue(Whole \o <<p[Len(p)]>>)
  ELSE 0 - 1

\* C8: pages is a decimal numeral with one fractional digit whose value is a
\* tenth nearest to wordsWithSpaces / wordsPerPage, so it is at most half a
\* tenth away from the quotient; 375 words at 250 words per page are "1.5".
C8_PagesRoundedToTenth ==
  metrics # NoMetrics =>
    LET w == metrics.wordsWithSpaces
        d == presets[1].wordsPerPage
        t == PagesTenths(metrics.pages)
    IN /\ d > 0
       /\ t >= 0
       /\ 2 * (10 * w - t * d) <= d
       /\ 2 * (t * d - 10 * w) <= d
       /\ (w = 375 /\ d = 250) => metrics.pages = <<"1", ".", "5">>

\* the note of 375 words at the default 250 words per page
C8_Witness ==
  /\ metrics # NoMetrics
  /\ metrics.wordsWithSpaces = 375
  /\ presets[1].wordsPerPage = 250
  /\ metrics.pages = <<"1", ".", "5">>

\* the k-th char of text is one of a link of the standard form
InMdLink(text, k) == \E i \in 1..k : MdLink(text, i) >= k

\* the k-th char of text is one of a link of the reversed form
InRevLink(text, k) == \E i \in 1..k : RevLink(text, i) >= k

\* no link of the reversed form shares a char with one of the standard form
LinksApart(text) ==
  \A k \in 1..Len(text) : ~(InMdLink(text, k) /\ InRevLink(text, k))

\* the k-th char of text follows a "(" that is not closed before it
InTarget(text, k) ==
  \E i \in 1..(k - 1) :
    text[i] = "(" /\ \A m \in (i + 1)..k : text[m] # ")"

LinkMark(text, k) == text[k] \in {"[", "]", "(", ")"}

LabelSep(text, k) == IsSpace(text[k]) /\ ~InTarget(text, k)

LabelSkip(text, k) == LinkMark(text, k) \/ InTarget(text, k)

\* the words of the note read with the labels of its links left in place and
\* their targets and marks left out
LabelWords(text) == RefWords(text, LabelSep, LabelSkip)

\* the flag of C9, on a counted note
C9_Flag == metrics # NoMetrics /\ presets[1].countMdLinksAsWords

\* C9 as stated: with countMdLinksAsWords set, every link of either form adds
\* the words of its label and nothing of its target.
C9_AsStated == C9_Flag => metrics.wordsWithSpaces = LabelWords(view)

\* C9: with countMdLinksAsWords set, every link of the standard form, and
\* every link of the reversed form that shares no char with one of the
\* standard form, adds the words of its label and nothing of its target.
C9_LabelsCounted ==
  (C9_Flag /\ LinksApart(view)) => metrics.wordsWithSpaces = LabelWords(view)

\* a link of each form side by side: "l m" and "l" read "l", "ml"
C9_Witness ==
  /\ C9_Flag
  /\ view = <<"[", "l", " ", "m", "]", "(", "t", ")",
              "(", "t", " ", "u", ")", "[", "l", "]">>
  /\ LinksApart(view)
  /\ metrics.wordsWithSpaces = 2

InLink(text, k) == InMdLink(text, k) \/ InRevLink(text, k)

OutsideSep(text, k) == IsSpace(text[k]) /\ ~InLink(text, k)

\* the "]" before the "(" of a standard link, the ")" before the "[" of a
\* reversed one
LinkJoint(text, k) ==
  \/ text[k] = "]" /\ At(text, k + 1) = "("
  \/ text[k] = ")" /\ At(text, k + 1) = "["

BothSep(text, k) == IsSpace(text[k]) \/ LinkJoint(text, k)

\* the flag of C10, on a counted note whose links lie apart
C10_Flag ==
  metrics # NoMetrics /\ ~presets[1].countMdLinksAsWords /\ LinksApart(view)

EitherLink(s, i) == IF MdLink(s, i) # 0 THEN MdLink(s, i) ELSE RevLink(s, i)

\* the chars of the target of the link read at i, with its parentheses
TargetOf(s, i) ==
  IF MdLink(s, i) # 0 THEN (MdLinkMid(s, i) + 1)..MdLink(s, i)
  ELSE i..RevLinkMid(s, i)

\* the last char of the first part of the link read at i
JointOf(s, i) == IF MdLink(s, i) # 0 THEN MdLinkMid(s, i) ELSE RevLinkMid(s, i)

\* the words of the note as the option "Count links display text" describes
\* them: the labels only when it is on, the labels and the targets when off
OptionWords(text, on) ==
  LET Count(targets, joints) ==
        IF on
        THEN RefWords(text, LAMBDA t, k : IsSpace(t[k]) /\ k \notin targets,
                            LAMBDA t, k : LinkMark(t, k) \/ k \in targets)
        ELSE RefWords(text, LAMBDA t, k : IsSpace(t[k]) \/ k \in joints, LinkMark)
      Of(links) ==
        Count(UNION {TargetOf(text, links[n][1]) : n \in 1..Len(links)},
              {JointOf(text, links[n][1]) : n \in 1..Len(links)})
  IN Of(Matches(EitherLink, text))

CommentAt(s, i) ==
  IF PercentComment(s, i) # 0 THEN PercentComment(s, i) ELSE HtmlComment(s, i)

\* the note without its comments
Uncommented(text) == ReplaceAll(CommentAt, Empty, text)

\* the counts of words and of chars
Visible(m) == <<m.wordsWithSpaces, m.charsWithSpaces, m.charsWithoutSpaces>>

\* C12 as stated: with ignoreComments set, the words and the chars of a note
\* are those of the note without its comments (each comment closed by the
\* nearest closing delimiter), counted with comments not ignored.
C12_AsStated ==
  (metrics # NoMetrics /\ presets[1].ignoreComments) =>
    Visible(metrics)
      = Visible(computeMetrics(Uncommented(view),
                               [presets[1] EXCEPT !.ignoreComments = FALSE]))

\* the step types the white-space char c at the end of a counted note
TypesWhite(c) ==
  /\ view' = view \o <<c>>
  /\ metrics # NoMetrics /\ metrics' # NoMetrics

\* C13 as stated: a newline typed at the end of the note leaves charsWithSpaces
\* as it is, a space or a tab adds one to it.
C13_AsStated ==
  [][/\ TypesWhite(NL) => metrics'.charsWithSpaces = metrics.charsWithSpaces
     /\ \A c \in {" ", TAB} :
          TypesWhite(c) => metrics'.charsWithSpaces = metrics.charsWithSpaces + 1]_vars

\* C13: charsWithSpaces is the length of the whole buffer: a newline typed at
\* the end of the note adds one to it, as a space or a tab does.
C13_NewlinesCounted ==
  [][\A c \in {NL, " ", TAB} :
       TypesWhite(c) => metrics'.charsWithSpaces = metrics.charsWithSpaces + 1]_vars

\* a word, a tab and a newline: three chars
C13_Witness ==
  /\ view = <<"a", TAB, NL>>
  /\ metrics # NoMetrics
  /\ metrics.charsWithSpaces = 3

\* the metrics in the order of the status bar, and their labels
MetricOrder ==
  <<"wordsWithSpaces", "charsWithSpaces", "charsWithoutSpaces", "pages",
    "lines", "paragraphs", "markdownLinks", "wikiLinks", "citekeys">>

StatusLabels ==
  <<"Words: ", "Chars: ", "Chars (no spaces): ", "Pages: ", "Lines: ",
    "Paras: ", "MD Links: ", "Wikilinks: ", "Citekeys: ">>

\* the metrics whose show-flag is set, as indices of MetricOrder
ShownMetrics == {k \in 1..9 : presets[1][VisibilityKeys[k]]}

\* the piece p shows the k-th metric with its computed value
ShowsMetric(p, k) ==
  /\ p.label = StatusLabels[k]
  /\ IF MetricOrder[k] = "pages" THEN p.value = metrics.pages
     ELSE /\ p.value # <<>>
          /\ \A n \in 1..Len(p.value) : IsDigit(p.value[n])
          /\ DigitsValue(p.value) = metrics[MetricOrder[k]]

\* the status text lists the shown metrics, each once, in the fixed order
ListsShownMetrics ==
  metrics # NoMetrics =>
    IF ShownMetrics = {}
    THEN statusText = <<Piece("No metrics enabled", <<>>)>>
    ELSE /\ Len(statusText) = Cardinality(ShownMetrics)
         /\ \A k \in ShownMetrics :
              ShowsMetric(statusText[Cardinality({j \in ShownMetrics : j <= k})], k)

\* C14: the status text lists exactly the metrics whose show-flag is set, in
\* the order words, chars with spaces, chars without spaces, pages, lines,
\* paragraphs, markdown links, wikilinks, citekeys, and "No metrics enabled"
\* when none is set; and a toggle of a show-flag changes no computed value.
C14_VisibilityOnlyFilters ==
  /\ []ListsShownMetrics
  /\ [][(view' = view /\ metrics # NoMetrics) => metrics' = metrics]_vars

\* words and pages switched off, chars and citekeys on, over the note of C5
C14_Witness ==
  /\ view = HelloWorld
  /\ ShownMetrics = {2, 9}
  /\ statusText = <<Piece("Chars: ", <<"1", "7">>), Piece("Citekeys: ", <<"1">>)>>

\* the Metrics record but for its pages
OtherMetrics(m) == <<Visible(m), Structural(m)>>

\* a counted note under a preset whose wordsPerPage is not positive, every
\* metric but pages being what it is at 250 words per page
C15_Degenerate ==
  /\ metrics # NoMetrics
  /\ presets[1].wordsPerPage <= 0

C15_OthersNormal ==
  OtherMetrics(metrics)
    = OtherMetrics(computeMetrics(view, [presets[1] EXCEPT !.wordsPerPage = 250]))

\* C15 as stated: when wordsPerPage <= 0, pages is a non-finite numeral and
\* every other metric has its normal value.
C15_AsStated ==
  C15_Degenerate =>
    /\ metrics.pages \in {<<"N", "a", "N">>,
                          <<"I", "n", "f", "i", "n", "i", "t", "y">>,
                          <<"-", "I", "n", "f", "i", "n", "i", "t", "y">>}
    /\ C15_OthersNormal

\* pages of w words at d < 0 words per page: "0.0" for no words, else "-" and
\* a numeral of one fractional digit within half a tenth of w / -d
NegativePages(p, w, d) ==
  LET Near(t) ==
        t >= 0 /\ 2 * (10 * w - t * (0 - d)) <= 0 - d
               /\ 2 * (t * (0 - d) - 10 * w) <= 0 - d
  IN IF w = 0 THEN p = <<"0", ".", "0">>
     ELSE p # <<>> /\ p[1] = "-" /\ Near(PagesTenths(SubSeq(p, 2, Len(p))))

\* C15: when wordsPerPage is 0, pages is "Infinity", or "NaN" for a note of
\* no words; when it is negative, pages is the negative quotient with one
\* fractional digit ("0.0" for no words); every other metric has its normal
\* value.
C15_PagesDefined ==
  C15_Degenerate =>
    /\ IF presets[1].wordsPerPage = 0
       THEN metrics.pages
              = (IF metrics.wordsWithSpaces = 0 THEN <<"N", "a", "N">>
                 ELSE <<"I", "n", "f", "i", "n", "i", "t", "y">>)
       ELSE NegativePages(metrics.pages, metrics.wordsWithSpaces,
                          presets[1].wordsPerPage)
    /\ C15_OthersNormal

\* three words at -4 words per page
C15_Witness ==
  /\ C15_Degenerate
  /\ presets[1].wordsPerPage = 0 - 4
  /\ metrics.wordsWithSpaces = 3
  /\ metrics.pages = <<"-", "0", ".", "8">>

\* one of the presets is the active one
HasActive == \E k \in 1..Len(presets) : presets[k].id = activePresetId

\* the position of the active preset in the list
ActivePosition == CHOOSE k \in 1..Len(presets) : presets[k].id = activePresetId

\* the ids made active by n clicks, one after the other, from the id at hand
RECURSIVE Clicked(_, _)
Clicked(id, n) ==
  IF n = 0 THEN <<>>
  ELSE <<cycleTarget(presets, id)>> \o Clicked(cycleTarget(presets, id), n - 1)

\* n clicks, n the number of presets, make every preset active once and end
\* on the preset they started from
ClicksVisitAll ==
  (Len(presets) >= 2 /\ HasActive) =>
    LET ids == Clicked(activePresetId, Len(presets)) IN
    /\ {ids[j] : j \in 1..Len(ids)} = {presets[k].id : k \in 1..Len(presets)}
    /\ ids[Len(ids)] = activePresetId

\* after a click the preset that followed the active one in the list, the
\* first after the last, is active; with one preset nothing has changed
ClickActivatesFollowing ==
  IF Len(presets) >= 2
  THEN /\ presets' = presets
       /\ HasActive =>
            activePresetId'
              = presets[IF ActivePosition = Len(presets) THEN 1
                        ELSE ActivePosition + 1].id
  ELSE UNCHANGED vars

\* C16: while one of the presets is active, a click on the status bar makes
\* the preset after the active one active, the first after the last, so that as many clicks as there are
\* presets make each active once and end where they began; with one preset a
\* click changes nothing.
C16_ClickCyclesPresets ==
  /\ []ClicksVisitAll
  /\ [][cyclePreset => ClickActivatesFollowing]_vars

\* three presets, the last of them active: the next click wraps to the first
C16_Witness ==
  /\ Len(presets) = 3
  /\ activePresetId = presets[3].id
  /\ cycleTarget(presets, activePresetId) = presets[1].id
  /\ statusText[1] = Piece("[]  ", <<presets[3].name>>)

\* the k-th char of text is a square bracket
IsBracket(text, k) == text[k] \in {"[", "]"}

\* the k-th char of text, no bracket, stands inside a wiki link: the nearest
\* bracket before it opens
InWiki(text, k) ==
  \E j \in 1..(k - 1) :
    /\ text[j] = "["
    /\ \A m \in (j + 1)..(k - 1) : ~IsBracket(text, m)

\* the k-th char of text, inside a wiki link, belongs to the text that the
\* link displays: the alias when it has a char that is no white space, the
\* target otherwise, in both cases up to its first "#" and without the white
\* space at its ends
Displayed(text, k) ==
  LET inner == {j \in 1..Len(text) :
                  \A m \in (IF j < k THEN j ELSE k)..(IF j < k THEN k ELSE j) :
                    ~IsBracket(text, m)}
      bars == {j \in inner : text[j] = "|"}
      alias == {j \in inner : \E b \in bars : b < j}
      target == {j \in inner : \A b \in bars : j < b}
      kept == IF \E j \in alias : ~IsSpace(text[j]) THEN alias ELSE target
      named == {j \in kept : \A h \in kept : text[h] = "#" => j < h}
  IN /\ k \in named
     /\ \E j \in named : j <= k /\ ~IsSpace(text[j])
     /\ \E j \in named : j >= k /\ ~IsSpace(text[j])

DisplaySkip(text, k) ==
  IsBracket(text, k) \/ (InWiki(text, k) /\ ~Displayed(text, k))

DisplaySep(text, k) == IsSpace(text[k]) /\ ~DisplaySkip(text, k)

\* C17: with ignoreWikiLinks unset and countWikiLinkDisplayText set, the words
\* of a note of words and wiki links are the words read with, of every link,
\* only the alias when it is not blank and only the target otherwise, and of
\* that text only what comes before its first "#".
C17_DisplayTextCounted ==
  (/\ metrics # NoMetrics /\ view \in AliasNotes
   /\ ~presets[1].ignoreWikiLinks /\ presets[1].countWikiLinkDisplayText) =>
    metrics.wordsWithSpaces = RefWords(view, DisplaySep, DisplaySkip)

\* a link with a blank alias and an anchor on its target, and a link with an
\* anchor after its alias: "b", "c"
C17_Witness ==
  /\ ~presets[1].ignoreWikiLinks /\ presets[1].countWikiLinkDisplayText
  /\ view = <<"[", "[", "b", "#", "d", "|", " ", "]", "]", " ">>
             \o <<"[", "[", "b", "|", "c", " ", "#", "d", "]", "]">>
  /\ metrics # NoMetrics
  /\ metrics.wordsWithSpaces = 2

\* C18 as stated: under every preset the words and the chars of a note are
\* those of the note without its fenced code blocks (each closed by the nearest
\* fence) and without its inline code spans, so that what stands between two
\* blocks is counted.
C18_AsStated ==
  metrics # NoMetrics =>
    Visible(metrics) = Visible(computeMetrics(StripCode(view), presets[1]))

\* C18 as stated, for the presets that count the comments
C18_WithComments == presets[1].ignoreComments \/ C18_AsStated

\* text is the marker followed by an item of letters and white space
MarkerItem(text, marker) ==
  /\ Len(text) > Len(marker)
  /\ SubSeq(text, 1, Len(marker)) = marker
  /\ \A k \in (Len(marker) + 1)..Len(text) : text[k] = "a" \/ IsSpace(text[k])

\* the item that follows the marker
ItemOf(text, marker) == SubSeq(text, Len(marker) + 1, Len(text))

\* the words of every note made of one of the markers and an item are the
\* words of the item
CountsItemOnly(markers) ==
  metrics # NoMetrics =>
    \A marker \in markers :
      MarkerItem(view, marker) =>
        metrics.wordsWithSpaces = countWordsWithSpaces(ItemOf(view, marker))

\* C19 as stated: a note made of a list marker, unordered ("-", "*", "+" and a
\* space) or ordered (digits, "." or ")" and a space), and an item has exactly
\* the words of the item.
C19_AsStated == CountsItemOnly(UnorderedFrags \cup NumberedFrags)

\* C19 as stated, for the unordered markers and the ordered ones with a "."
C19_DotAndUnordered == CountsItemOnly(UnorderedFrags \cup {<<"1", ".", " ">>})

\* the index of the last char of the list marker that begins the line at the
\* i-th char of text, a checkbox, an unordered or a numbered one; 0 if none
MarkerEnd(text, i) ==
  LET n == Len(text)
      checkbox ==
        /\ i + 5 <= n
        /\ SubSeq(text, i, i + 5) \in {<<"-", " ", "[", " ", "]", " ">>,
                                       <<"-", " ", "[", "x", "]", " ">>}
      unordered == i + 1 <= n /\ text[i] \in {"-", "*", "+"} /\ text[i + 1] = " "
      closes == {j \in (i + 1)..(n - 1) :
                   /\ \A k \in i..(j - 1) : IsDigit(text[k])
                   /\ text[j] \in {".", ")"}
                   /\ text[j + 1] = " "}
  IN IF ~(i = 1 \/ text[i - 1] = NL) THEN 0
     ELSE IF checkbox THEN i + 5
     ELSE IF unordered THEN i + 1
     ELSE IF closes # {} THEN (CHOOSE j \in closes : TRUE) + 1
     ELSE 0

\* the chars of text, with the white space or without it, every list marker
\* at a line start counted for 2 or 1 and one more when it is numbered
RefChars(text, spaces) ==
  LET starts == {i \in 1..Len(text) : MarkerEnd(text, i) # 0}
      plain == {k \in 1..Len(text) :
                  /\ \A i \in starts : k < i \/ k > MarkerEnd(text, i)
                  /\ spaces \/ ~IsSpace(text[k])}
  IN Cardinality(plain) + (IF spaces THEN 2 ELSE 1) * Cardinality(starts)
       + Cardinality({i \in starts : IsDigit(text[i])})

\* the buffer of the chars and the note are counted alike
CountedAlike(text) ==
  /\ metrics.charsWithSpaces = RefChars(text, TRUE)
  /\ metrics.charsWithoutSpaces = RefChars(text, FALSE)

\* C20: in the buffers of the chars a list marker at a line start counts for
\* its placeholder, a checkbox or an unordered marker 2 chars with the white
\* space and 1 without, a numbered one 3 and 2, whatever its length, and the
\* same chars within a line count as they are; the buffer of a note with no
\* asterisk is the note.
C20_PlaceholderWidths ==
  metrics # NoMetrics =>
    /\ CountedAlike(preprocessBase(view, presets[1]))
    /\ (\A k \in 1..Len(view) : view[k] # "*") => CountedAlike(view)

\* a numbered marker of four chars at the line start, a letter and the same
\* four chars within the line: 3 + 1 + 4 and 2 + 1 + 3
C20_Witness ==
  /\ view = <<"1", "2", ")", " ", "a", "1", "2", ")", " ">>
  /\ metrics # NoMetrics
  /\ metrics.charsWithSpaces = 8
  /\ metrics.charsWithoutSpaces = 6

\* the chars of text that are no white space and are the first such char
\* after a run of two or more newlines, or the first of the text
RefParagraphs(text) ==
  LET Inked(k) == ~IsSpace(text[k])
      Parted(j, k) ==
        \E m \in (j + 1)..(k - 2) : text[m] = NL /\ text[m + 1] = NL
  IN Cardinality({k \in 1..Len(text) :
                    Inked(k) /\ \A j \in 1..(k - 1) : Inked(j) => Parted(j, k)})

C22_CommandsFollowPresets ==
  LET ids == {CommandId(presets[k].id) : k \in 1..Len(presets)} IN
  /\ registeredCommandIds = ids
  /\ DOMAIN commands = ids
  /\ \A k \in 1..Len(presets) :
       commands[CommandId(presets[k].id)] = <<"Switch to ", presets[k].name>>

\* the first preset deleted, one added and the new first one renamed
C22_Witness ==
  /\ Len(presets) = 2
  /\ presets[1].id = "p2" /\ presets[1].name = "d"
  /\ presets[2].id = "p1"
  /\ commands[<<"word-count-activate-preset-", "p2">>] = <<"Switch to ", "d">>
  /\ <<"word-count-activate-preset-", "p3">> \notin registeredCommandIds

\* the status bar shows what updateCount makes of the settings and the view
Fresh ==
  LET Shown(r) == statusText = r.text /\ metrics = r.metrics IN
  Shown(updateCount(presets, activePresetId, view))

\* C23: once no handler is suspended at its save, the status bar shows the
\* text of the active preset as it is and of the note as it is, whatever the
\* order in which the handlers began and went on.
C23_LastWriteWins == pending = 0 => Fresh

\* a handler is suspended and the status bar shows the text of an earlier state
C23_Stale == pending > 0 /\ ~Fresh

\* the second preset activated, the first one edited and another note opened,
\* every handler done
C23_Witness ==
  /\ pending = 0
  /\ activePresetId = "p2"
  /\ ~presets[1].ignoreComments /\ presets[1].wordsPerPage = 7
  /\ view = <<"a", " ", "%", "%", "a", "%", "%">>
  /\ metrics # NoMetrics /\ metrics.wordsWithSpaces = 2
  /\ Fresh

\* C24 as stated: in every state after onload there is a preset, and the
\* active id is the id of a preset of the list.
C24_AsStated == Len(presets) > 0 /\ HasActive

\* C24 as stated, for the lists that are not empty and have an active preset
\* before a step that leaves a preset: the active id is then the id of a
\* preset, the first of the list when the active one is gone
C24_WhilePresetsRemain ==
  [][(HasActive /\ Len(presets') > 0) =>
       \E k \in 1..Len(presets') :
         /\ presets'[k].id = activePresetId'
         /\ (\A j \in 1..Len(presets') : presets'[j].id # activePresetId) => k = 1]_vars

\* the whole numbers n of which text is the numeral, with a "-" before it for
\* the negative ones, alone or followed by a char that is no digit
Entered(text) ==
  LET Reads(numeral) ==
        /\ Len(text) >= Len(numeral)
        /\ SubSeq(text, 1, Len(numeral)) = numeral
        /\ ~IsDigit(At(text, Len(numeral) + 1))
  IN {n \in 0..99 : Reads(IntToStr(n))}
       \cup {0 - n : n \in {m \in 1..99 : Reads(<<"-">> \o IntToStr(m))}}

\* the text entered is taken: it is the numeral of a positive whole number
Taken(text) == \E n \in Entered(text) : n > 0

\* C25: the wordsPerPage of every preset is a positive whole number, an input
\* that is the numeral of one sets it and begins a save, and any other input
\* changes nothing and begins no save.
C25_WordsPerPagePositive ==
  /\ [](\A k \in 1..Len(presets) : presets[k].wordsPerPage \in Nat \ {0})
  /\ [][\A text \in AsyncInputs :
          SetWordsPerPageAwait(1, text) =>
            IF Taken(text)
            THEN /\ presets'[1].wordsPerPage \in Entered(text)
                 /\ pending' = pending + 1
            ELSE presets' = presets /\ pending' = pending]_vars

\* "12.7" was entered and saved: 12 words per page
C25_Witness ==
  /\ presets[1].wordsPerPage = 12
  /\ Entered(<<"1", "2", ".", "7">>) = {12}
  /\ ~Taken(<<"0", ".", "5">>) /\ ~Taken(<<>>)
  /\ pending = 0

\* C26 as stated: the words of a note are never more than its chars without
\* the white space, list items and checkboxes included.
C26_AsStated ==
  metrics # NoMetrics => metrics.wordsWithSpaces <= metrics.charsWithoutSpaces

\* C26 as stated, for the notes without an unticked checkbox
C26_WithoutOpenBox ==
  (\A i \in 1..Len(view) : ~StartsAt(view, i, <<"[", " ", "]">>)) => C26_AsStated

\* a list marker begins at the j-th char of text
StartsItem(text, j) == MarkerEnd(SubSeq(text, j, Len(text)), 1) # 0

\* no line of text begins, after spaces and tabs, with a list marker
NoListLine(text) ==
  \A j \in 1..Len(text) :
    StartsItem(text, j) =>
      \E m \in 1..(j - 1) :
        /\ text[m] \notin {" ", TAB}
        /\ \A n \in m..(j - 1) : text[n] # NL

\* C27 as stated: when no line of the note starts with a list marker, its
\* words are the runs of chars other than white space of its base buffer.
C27_AsStated ==
  (metrics # NoMetrics /\ NoListLine(view)) =>
    metrics.wordsWithSpaces = countWordsWithSpaces(preprocessBase(view, presets[1]))

\* the step leaves the presets, the active id and the commands as they are
\* and ends with the status bar showing what the settings and the note give
Recomputed ==
  LET Shown(r) == statusText' = r.text /\ metrics' = r.metrics IN
  /\ UNCHANGED <<presets, activePresetId, registeredCommandIds, commands>>
  /\ Shown(updateCount(presets', activePresetId', view'))

====
